---- MODULE Spec2Model ----
(***************************************************************************)
(* Attach / detach lifecycle of the InfiniBand SR-IOV CNI plugin           *)
(* (cmd/ib-sriov-cni/main.go).  Every invocation of cmdAdd, cmdDel and     *)
(* cmdCheck is followed statement by statement: pc is the position in the  *)
(* handler, defers is Go's stack of deferred calls, err / ierr are the two *)
(* variables named err that the deferred closures of cmdAdd capture (the   *)
(* function-level one and the one declared inside the IPAM block).         *)
(* The collaborators (sriov manager, IPAM delegate, lifecycle cache,       *)
(* namespace handle) act on the environment variables and may fail.        *)
(***************************************************************************)
EXTENDS Integers, Sequences, FiniteSets, TLC

VARIABLES
    vfLoc,          \* where the VF link is: "host" or "container" (named IfName)
    vfConfigured,   \* VF configuration (GUID ...) applied on the host side
    ipAllocated,    \* the IPAM delegate holds an address for the container
    ifaceCfg,       \* <<>> or <<res>>: the result configured on the interface
    cache,          \* lifecycle cache: function from cache path to NetConf
    pc,             \* position in the running handler, "idle" between calls
    op,             \* the handler running or last run: "none","add","del","check"
    args,           \* skel.CmdArgs of the invocation
    netConf,        \* the NetConf the handler works with
    cRefPath,       \* cmdDel: path of the loaded cache record, "" if none
    err,            \* function-level variable err
    ierr,           \* cmdAdd: err declared inside the IPAM block (line 89)
    defers,         \* stack of deferred calls, last registered first
    calls,          \* calls made by this invocation, in order, with outcome
    result,         \* cmdAdd: the variable result (line 62)
    newResult,      \* cmdAdd: the variable newResult (line 101)
    ret,            \* value the handler returns: nil or an error
    printed,        \* <<>> or <<res>>: the result printed to the caller
    r,              \* cmdAdd: the result the IPAM delegate answered with
    pre,            \* the environment when the invocation started
    hist            \* successful invocations in a row before this one,
                    \* from the last successful attach on (at most MaxHist)

env == <<vfLoc, vfConfigured, ipAllocated, ifaceCfg, cache>>
vars == <<vfLoc, vfConfigured, ipAllocated, ifaceCfg, cache,
          pc, op, args, netConf, cRefPath, err, ierr, defers, calls, result,
          newResult, ret, printed, r, pre, hist>>

-----------------------------------------------------------------------------
(* Bounds *)
MaxIPs == 2        \* addresses in an IPAM result
MaxIfIndex == 1    \* largest interface index an IPAM result carries
MaxHist == 2       \* successful invocations in a row remembered

-----------------------------------------------------------------------------
(* Constants of the program and the values requests are drawn from *)
infiniBandAnnotation == "mellanox.infiniband.app"
configuredInfiniBand == "configured"

nil == "nil"
ContainerID == "c1"
IfName == "net1"
NsPath == "/var/run/netns/c1"
DefaultCNIDir == "/var/lib/cni/ib-sriov"

AnnotationValues == {"configured", "pending"}
GuidValues == {"", "01:23:45:67:89:ab:cd:ef"}
IPAMTypes == {"", "dhcp", "host-local"}

\* Go maps from string to string with keys among the two the handler reads
CNIArgs ==
    UNION { { m \in [D -> AnnotationValues \cup GuidValues] :
                /\ (infiniBandAnnotation \in D => m[infiniBandAnnotation] \in AnnotationValues)
                /\ ("guid" \in D => m["guid"] \in GuidValues) } :
            D \in SUBSET {infiniBandAnnotation, "guid"} }

\* m[k] of a Go map: the zero value when the key is absent
MapGet(m, k) == IF k \in DOMAIN m THEN m[k] ELSE ""
\* _, ok := m[k]
MapHas(m, k) == k \in DOMAIN m

StdinDatas == [cniArgs : CNIArgs, ipamType : IPAMTypes]
CmdArgs == [ContainerID : {ContainerID}, IfName : {IfName},
            Netns : {"", NsPath}, StdinData : StdinDatas]

NoArgs == [ContainerID |-> "", IfName |-> "", Netns |-> "",
           StdinData |-> [cniArgs |-> <<>>, ipamType |-> ""]]
NoConf == [cniArgs |-> <<>>, GUID |-> "", IPAMType |-> ""]
NoResult == [Interfaces |-> <<>>, IPs |-> <<>>]

\* *int: {} is the nil pointer, {i} points at i
IntPtrs == {{}} \cup {{i} : i \in 0..MaxIfIndex}
IPConfigs == [Address : {"192.168.1.10"}, Interface : IntPtrs]
IfaceLists == {<<>>, <<[Name |-> "dummy0", Sandbox |-> ""]>>}
\* results an IPAM delegate may answer with
IPAMResults ==
    [Interfaces : IfaceLists,
     IPs : UNION {[1..n -> IPConfigs] : n \in 0..MaxIPs}]

EnvRec == [vfLoc |-> vfLoc, vfConfigured |-> vfConfigured,
           ipAllocated |-> ipAllocated, ifaceCfg |-> ifaceCfg,
           cache |-> cache]

Call(fn, ok) == [fn |-> fn, ok |-> ok]
Called(fn) == \E i \in 1..Len(calls) : calls[i].fn = fn
Succeeded(fn) == \E i \in 1..Len(calls) : calls[i].fn = fn /\ calls[i].ok
Failed(fn) == \E i \in 1..Len(calls) : calls[i].fn = fn /\ ~calls[i].ok

-----------------------------------------------------------------------------
(* Collaborators: what a call can answer and what it does to the environment *)

\* cache path of a record: DefaultCNIDir/<containerID>-<ifName>
CRefPath(a) == <<DefaultCNIDir, a.ContainerID, a.IfName>>
NoPath == <<>>

\* config.LoadConf: the NetConf parsed from the request
LoadConf(stdin) ==
    [cniArgs |-> stdin.cniArgs, GUID |-> "", IPAMType |-> stdin.ipamType]

\* sriov SetupVF moves the VF from the host into the namespace and renames it
\* to the pod interface name; it can fail before or after the link arrived.
SetupVFOutcomes(loc) ==
    IF loc = "host" THEN {"ok", "fail", "failMoved"} ELSE {"fail"}
SetupVFLoc(loc, o) == IF o \in {"ok", "failMoved"} THEN "container" ELSE loc

\* netlink.LinkByName(ifName) inside the namespace
LinkByName(loc) == loc = "container"

\* sriov ReleaseVF moves the link named ifName from the namespace back to the
\* host; without such a link it fails
ReleaseVFOutcomes(loc) == IF loc = "container" THEN {TRUE, FALSE} ELSE {FALSE}
ReleaseVFLoc(loc, ok) == IF ok THEN "host" ELSE loc
\* the addresses configured on the link leave the container with it
ReleaseVFIface(cfg, ok) == IF ok THEN <<>> ELSE cfg

\* utils.SaveNetConf / utils.CleanCachedNetConf on the cache directory
SaveNetConf(c, path, conf) ==
    [q \in DOMAIN c \cup {path} |-> IF q = path THEN conf ELSE c[q]]
CleanCachedNetConf(c, path) == [q \in DOMAIN c \ {path} |-> c[q]]

\* config.LoadConfFromCache: a record is found only when one was saved
LoadConfFromCacheOutcomes(c, a) ==
    IF CRefPath(a) \in DOMAIN c THEN {"ok", "error"} ELSE {"notFound"}

\* ns.GetNS: an empty path names no namespace
GetNSOutcomes(a) ==
    IF a.Netns = "" THEN {"notExist"} ELSE {"ok", "notExist", "error"}

-----------------------------------------------------------------------------
Init ==
    /\ vfLoc = "host"
    /\ vfConfigured = FALSE
    /\ ipAllocated = FALSE
    /\ ifaceCfg = <<>>
    /\ cache = [q \in {} |-> NoConf]
    /\ pc = "idle"
    /\ op = "none"
    /\ args = NoArgs
    /\ netConf = NoConf
    /\ cRefPath = NoPath
    /\ err = nil
    /\ ierr = nil
    /\ defers = <<>>
    /\ calls = <<>>
    /\ result = NoResult
    /\ newResult = NoResult
    /\ ret = nil
    /\ printed = <<>>
    /\ r = NoResult
    /\ pre = [vfLoc |-> "host", vfConfigured |-> FALSE, ipAllocated |-> FALSE,
              ifaceCfg |-> <<>>, cache |-> [q \in {} |-> NoConf]]
    /\ hist = <<>>

\* the requests the runtime sends; cmdDel and cmdCheck read nothing of
\* StdinData, they only hand it to the delegate
Requests(cmd) ==
    IF cmd = "add" THEN CmdArgs
    ELSE {a \in CmdArgs : a.StdinData = [cniArgs |-> <<>>, ipamType |-> ""]}

\* successful invocations in a row, starting at a successful attach
HistNext(h, o, e, a) ==
    IF e # nil THEN <<>>
    ELSE IF o = "add" THEN <<"add">>
    ELSE IF o = "del" /\ a.Netns # "" /\ h # <<>> /\ Len(h) < MaxHist
         THEN Append(h, "del")
    ELSE <<>>

Entry(cmd) ==
    CASE cmd = "add" -> "add_LoadConf"
      [] cmd = "del" -> "del_Netns"
      [] OTHER -> "check"

\* skel.PluginMain dispatches one command to its handler
Invoke ==
    /\ pc = "idle"
    /\ \E cmd \in {"add", "del", "check"} : \E a \in Requests(cmd) :
         /\ op' = cmd
         /\ args' = a
         /\ pc' = Entry(cmd)
    /\ hist' = HistNext(hist, op, ret, args)
    /\ netConf' = NoConf
    /\ cRefPath' = NoPath
    /\ err' = nil
    /\ ierr' = nil
    /\ defers' = <<>>
    /\ calls' = <<>>
    /\ result' = NoResult
    /\ newResult' = NoResult
    /\ ret' = nil
    /\ printed' = <<>>
    /\ r' = NoResult
    /\ pre' = EnvRec
    /\ UNCHANGED env

\* return e: the value is fixed, then the deferred calls run
ReturnWith(e) ==
    /\ ret' = e
    /\ pc' = "defers"

-----------------------------------------------------------------------------
(* cmdAdd *)

\* line 39 testing only that the annotation is present
AnnotationPresent(cniArgs) == MapHas(cniArgs, infiniBandAnnotation)

\* line 39: the annotation must read "configured"
AnnotationConfigured(cniArgs) ==
    MapGet(cniArgs, infiniBandAnnotation) = configuredInfiniBand

\* lines 44-45: guid, ok := cniArgs["guid"]
GuidFound(cniArgs) == MapHas(cniArgs, "guid")

\* lines 63-66: the container-side interface
ContainerInterfaces(a, path) == <<[Name |-> a.IfName, Sandbox |-> path]>>

\* line 106 without the test for an empty address list
NoIPConfigUnchecked(res) == FALSE

\* line 106
NoIPConfig(res) == Len(res.IPs) = 0

\* lines 112-115 leaving the delegate's interface indices in place
KeepDelegateInterface(ips) == ips

\* lines 112-115: every address applies to the container interface
PointAtContainerInterface(ips) ==
    [i \in DOMAIN ips |-> [ips[i] EXCEPT !.Interface = {0}]]

\* lines 33-36
CmdAdd_LoadConf ==
    /\ pc = "add_LoadConf"
    /\ \E ok \in BOOLEAN :
         /\ calls' = Append(calls, Call("LoadConf", ok))
         /\ IF ok
            THEN /\ netConf' = LoadConf(args.StdinData)
                 /\ err' = nil
                 /\ pc' = "add_annotation"
                 /\ ret' = ret
            ELSE /\ netConf' = netConf
                 /\ err' = "LoadConf"
                 /\ ReturnWith("failed to load netconf")
    /\ UNCHANGED <<env, op, args, cRefPath, ierr, defers, result, newResult,
                   printed, r, pre, hist>>

\* lines 38-42
CmdAdd_CheckAnnotation ==
    /\ pc = "add_annotation"
    /\ IF AnnotationConfigured(netConf.cniArgs)
       THEN pc' = "add_guid" /\ ret' = ret
       ELSE ReturnWith("InfiniBand status is not configured")
    /\ UNCHANGED <<env, op, args, netConf, cRefPath, err, ierr, defers, calls,
                   result, newResult, printed, r, pre, hist>>

\* lines 44-49
CmdAdd_CheckGuid ==
    /\ pc = "add_guid"
    /\ IF GuidFound(netConf.cniArgs)
       THEN /\ netConf' = [netConf EXCEPT !.GUID = MapGet(netConf.cniArgs, "guid")]
            /\ pc' = "add_GetNS"
            /\ ret' = ret
       ELSE /\ netConf' = netConf
            /\ ReturnWith("no guid found from cni-args")
    /\ UNCHANGED <<env, op, args, cRefPath, err, ierr, defers, calls,
                   result, newResult, printed, r, pre, hist>>

\* lines 51-55 without the deferred netns.Close()
CmdAdd_GetNS_NoDeferredClose ==
    /\ pc = "add_GetNS"
    /\ \E o \in GetNSOutcomes(args) :
         /\ calls' = Append(calls, Call("GetNS", o = "ok"))
         /\ IF o = "ok"
            THEN /\ err' = nil
                 /\ pc' = "add_ApplyVFConfig"
                 /\ ret' = ret
            ELSE /\ err' = o
                 /\ ReturnWith("failed to open netns")
    /\ UNCHANGED <<env, op, args, netConf, cRefPath, ierr, defers, result,
                   newResult, printed, r, pre, hist>>

\* lines 51-55
CmdAdd_GetNS ==
    /\ pc = "add_GetNS"
    /\ \E o \in GetNSOutcomes(args) :
         /\ calls' = Append(calls, Call("GetNS", o = "ok"))
         /\ IF o = "ok"
            THEN /\ err' = nil
                 /\ defers' = <<"Close">> \o defers
                 /\ pc' = "add_ApplyVFConfig"
                 /\ ret' = ret
            ELSE /\ err' = o
                 /\ defers' = defers
                 /\ ReturnWith("failed to open netns")
    /\ UNCHANGED <<env, op, args, netConf, cRefPath, ierr, result, newResult,
                   printed, r, pre, hist>>

\* lines 57-60: err is declared by the if statement and is not the function's
CmdAdd_ApplyVFConfig ==
    /\ pc = "add_ApplyVFConfig"
    /\ \E ok \in BOOLEAN :
         /\ calls' = Append(calls, Call("ApplyVFConfig", ok))
         /\ IF ok
            THEN /\ vfConfigured' = TRUE
                 /\ pc' = "add_SetupVF"
                 /\ ret' = ret
            ELSE /\ vfConfigured' = vfConfigured
                 /\ ReturnWith("failed to configure VF")
    /\ UNCHANGED <<vfLoc, ipAllocated, ifaceCfg, cache, op, args, netConf,
                   cRefPath, err, ierr, defers, result, newResult, printed, r,
                   pre, hist>>

\* lines 62-82: result.Interfaces, err = sm.SetupVF(...), the deferred release
CmdAdd_SetupVF ==
    /\ pc = "add_SetupVF"
    /\ result' = [result EXCEPT !.Interfaces = ContainerInterfaces(args, args.Netns)]
    /\ \E o \in SetupVFOutcomes(vfLoc) :
         /\ calls' = Append(calls, Call("SetupVF", o = "ok"))
         /\ vfLoc' = SetupVFLoc(vfLoc, o)
         /\ err' = IF o = "ok" THEN nil ELSE "SetupVF"
         /\ IF o = "ok"
            THEN pc' = "add_IPAMType" /\ ret' = ret
            ELSE ReturnWith("failed to set up pod interface")
    /\ defers' = <<"ReleaseVF">> \o defers
    /\ UNCHANGED <<vfConfigured, ipAllocated, ifaceCfg, cache, op, args,
                   netConf, cRefPath, ierr, newResult, printed, r, pre, hist>>

\* lines 85-88 (and the skip to line 126 when no IPAM is configured)
CmdAdd_IPAMType ==
    /\ pc = "add_IPAMType"
    /\ IF netConf.IPAMType = ""
       THEN pc' = "add_SaveNetConf" /\ ret' = ret
       ELSE IF netConf.IPAMType = "dhcp"
            THEN ReturnWith("ipam type dhcp is not supported")
            ELSE pc' = "add_ExecAdd" /\ ret' = ret
    /\ UNCHANGED <<env, op, args, netConf, cRefPath, err, ierr, defers, calls,
                   result, newResult, printed, r, pre, hist>>

\* lines 89-98: r, err := ipam.ExecAdd(...) declares the block's own err
CmdAdd_ExecAdd ==
    /\ pc = "add_ExecAdd"
    /\ \E ok \in BOOLEAN :
         /\ calls' = Append(calls, Call("ExecAdd", ok))
         /\ IF ok
            THEN /\ \E res \in IPAMResults : r' = res
                 /\ ipAllocated' = TRUE
                 /\ ierr' = nil
                 /\ defers' = <<"ExecDel">> \o defers
                 /\ pc' = "add_NewResult"
                 /\ ret' = ret
            ELSE /\ r' = r
                 /\ ipAllocated' = ipAllocated
                 /\ ierr' = "ExecAdd"
                 /\ defers' = defers
                 /\ ReturnWith("failed to set up IPAM plugin")
    /\ UNCHANGED <<vfLoc, vfConfigured, ifaceCfg, cache, op, args, netConf,
                   cRefPath, err, result, newResult, printed, pre, hist>>

\* lines 100-104: newResult, err := current.NewResultFromResult(r)
CmdAdd_NewResult ==
    /\ pc = "add_NewResult"
    /\ \E ok \in BOOLEAN :
         /\ calls' = Append(calls, Call("NewResultFromResult", ok))
         /\ IF ok
            THEN /\ newResult' = [Interfaces |-> r.Interfaces, IPs |-> r.IPs]
                 /\ ierr' = nil
                 /\ pc' = "add_CheckIPs"
                 /\ ret' = ret
            ELSE /\ newResult' = newResult
                 /\ ierr' = "NewResultFromResult"
                 /\ ReturnWith("NewResultFromResult")
    /\ UNCHANGED <<env, op, args, netConf, cRefPath, err, defers, result,
                   printed, r, pre, hist>>

\* lines 106-108: the error returned is not assigned to any err
CmdAdd_CheckIPs ==
    /\ pc = "add_CheckIPs"
    /\ IF NoIPConfig(newResult)
       THEN ReturnWith("IPAM plugin returned missing IP config")
       ELSE pc' = "add_Rewrite" /\ ret' = ret
    /\ UNCHANGED <<env, op, args, netConf, cRefPath, err, ierr, defers, calls,
                   result, newResult, printed, r, pre, hist>>

\* lines 110-115
CmdAdd_Rewrite ==
    /\ pc = "add_Rewrite"
    /\ newResult' = [Interfaces |-> result.Interfaces,
                     IPs |-> PointAtContainerInterface(newResult.IPs)]
    /\ pc' = "add_ConfigureIface"
    /\ UNCHANGED <<env, op, args, netConf, cRefPath, err, ierr, defers, calls,
                   result, ret, printed, r, pre, hist>>

\* lines 117-123: err = netns.Do(... ipam.ConfigureIface ...), the block's err
CmdAdd_ConfigureIface ==
    /\ pc = "add_ConfigureIface"
    /\ \E ok \in BOOLEAN :
         /\ calls' = Append(calls, Call("ConfigureIface", ok))
         /\ IF ok
            THEN /\ ifaceCfg' = <<newResult>>
                 /\ ierr' = nil
                 /\ result' = newResult
                 /\ pc' = "add_SaveNetConf"
                 /\ ret' = ret
            ELSE /\ ifaceCfg' = ifaceCfg
                 /\ ierr' = "ConfigureIface"
                 /\ result' = result
                 /\ ReturnWith("ConfigureIface")
    /\ UNCHANGED <<vfLoc, vfConfigured, ipAllocated, cache, op, args, netConf,
                   cRefPath, err, defers, newResult, printed, r, pre, hist>>

\* lines 126-129: err = utils.SaveNetConf(...) assigns the function's err
CmdAdd_SaveNetConf ==
    /\ pc = "add_SaveNetConf"
    /\ \E ok \in BOOLEAN :
         /\ calls' = Append(calls, Call("SaveNetConf", ok))
         /\ IF ok
            THEN /\ cache' = SaveNetConf(cache, CRefPath(args), netConf)
                 /\ err' = nil
                 /\ pc' = "add_PrintResult"
                 /\ ret' = ret
            ELSE /\ cache' = cache
                 /\ err' = "SaveNetConf"
                 /\ ReturnWith("error saving NetConf")
    /\ UNCHANGED <<vfLoc, vfConfigured, ipAllocated, ifaceCfg, op, args,
                   netConf, cRefPath, ierr, defers, result, newResult, printed,
                   r, pre, hist>>

\* line 131
CmdAdd_PrintResult ==
    /\ pc = "add_PrintResult"
    /\ \E ok \in BOOLEAN :
         /\ calls' = Append(calls, Call("PrintResult", ok))
         /\ printed' = IF ok THEN <<result>> ELSE printed
         /\ ReturnWith(IF ok THEN nil ELSE "PrintResult")
    /\ UNCHANGED <<env, op, args, netConf, cRefPath, err, ierr, defers,
                   result, newResult, r, pre, hist>>

\* lines 69-79 releasing the VF without looking the link up first
Defer_ReleaseVF_Unchecked ==
    /\ pc = "defers"
    /\ defers # <<>> /\ Head(defers) = "ReleaseVF"
    /\ defers' = Tail(defers)
    /\ IF err # nil
       THEN \E ok \in ReleaseVFOutcomes(vfLoc) :
              /\ calls' = Append(calls, Call("ReleaseVF", ok))
              /\ vfLoc' = ReleaseVFLoc(vfLoc, ok)
              /\ ifaceCfg' = ReleaseVFIface(ifaceCfg, ok)
       ELSE /\ calls' = calls
            /\ vfLoc' = vfLoc
            /\ ifaceCfg' = ifaceCfg
    /\ UNCHANGED <<vfConfigured, ipAllocated, cache, pc, op, args,
                   netConf, cRefPath, err, ierr, result, newResult, ret,
                   printed, r, pre, hist>>

\* lines 69-79, run on return: the closure reads the function's err
Defer_ReleaseVF ==
    /\ pc = "defers"
    /\ defers # <<>> /\ Head(defers) = "ReleaseVF"
    /\ defers' = Tail(defers)
    /\ IF err # nil
       THEN IF LinkByName(vfLoc)
            THEN \E ok \in ReleaseVFOutcomes(vfLoc) :
                   /\ calls' = calls \o <<Call("LinkByName", TRUE),
                                          Call("ReleaseVF", ok)>>
                   /\ vfLoc' = ReleaseVFLoc(vfLoc, ok)
                   /\ ifaceCfg' = ReleaseVFIface(ifaceCfg, ok)
            ELSE /\ calls' = Append(calls, Call("LinkByName", FALSE))
                 /\ vfLoc' = vfLoc
                 /\ ifaceCfg' = ifaceCfg
       ELSE /\ calls' = calls
            /\ vfLoc' = vfLoc
            /\ ifaceCfg' = ifaceCfg
    /\ UNCHANGED <<vfConfigured, ipAllocated, cache, pc, op, args,
                   netConf, cRefPath, err, ierr, result, newResult, ret,
                   printed, r, pre, hist>>

\* lines 94-98 with a failed release aborting the calls still deferred
Defer_ExecDel_AbortsOnFailure ==
    /\ pc = "defers"
    /\ defers # <<>> /\ Head(defers) = "ExecDel"
    /\ IF ierr # nil
       THEN \E ok \in BOOLEAN :
              /\ calls' = Append(calls, Call("ExecDel", ok))
              /\ ipAllocated' = IF ok THEN FALSE ELSE ipAllocated
              /\ defers' = IF ok THEN Tail(defers) ELSE <<>>
       ELSE /\ calls' = calls
            /\ ipAllocated' = ipAllocated
            /\ defers' = Tail(defers)
    /\ UNCHANGED <<vfLoc, vfConfigured, ifaceCfg, cache, pc, op, args,
                   netConf, cRefPath, err, ierr, result, newResult, ret,
                   printed, r, pre, hist>>

\* lines 94-98, run on return: the closure reads the IPAM block's err
Defer_ExecDel ==
    /\ pc = "defers"
    /\ defers # <<>> /\ Head(defers) = "ExecDel"
    /\ defers' = Tail(defers)
    /\ IF ierr # nil
       THEN \E ok \in BOOLEAN :
              /\ calls' = Append(calls, Call("ExecDel", ok))
              /\ ipAllocated' = IF ok THEN FALSE ELSE ipAllocated
       ELSE /\ calls' = calls
            /\ ipAllocated' = ipAllocated
    /\ UNCHANGED <<vfLoc, vfConfigured, ifaceCfg, cache, pc, op, args,
                   netConf, cRefPath, err, ierr, result, newResult, ret,
                   printed, r, pre, hist>>

\* lines 55 and 177: defer netns.Close()
Defer_Close ==
    /\ pc = "defers"
    /\ defers # <<>> /\ Head(defers) = "Close"
    /\ defers' = Tail(defers)
    /\ calls' = Append(calls, Call("Close", TRUE))
    /\ UNCHANGED <<env, pc, op, args, netConf, cRefPath, err, ierr, result,
                   newResult, ret, printed, r, pre, hist>>

\* the handler hands ret to its caller once no deferred call is left
Return ==
    /\ pc = "defers"
    /\ defers = <<>>
    /\ pc' = "idle"
    /\ UNCHANGED <<env, op, args, netConf, cRefPath, err, ierr, defers, calls,
                   result, newResult, ret, printed, r, pre, hist>>

-----------------------------------------------------------------------------
(* cmdDel *)

\* line 136 without the early return
NetnsNeverEmpty(a) == FALSE

\* line 136
NetnsEmpty(a) == a.Netns = ""

\* line 146: the condition under which the deferred closure cleans the cache
CleanWanted(e, path) == e = nil /\ path # NoPath

\* lines 136-138
CmdDel_Netns ==
    /\ pc = "del_Netns"
    /\ IF NetnsEmpty(args)
       THEN ReturnWith(nil)
       ELSE pc' = "del_LoadConfFromCache" /\ ret' = ret
    /\ UNCHANGED <<env, op, args, netConf, cRefPath, err, ierr, defers, calls,
                   result, newResult, printed, r, pre, hist>>

\* lines 140-149: load the record, return on any error, defer the cleaning
CmdDel_LoadConfFromCache ==
    /\ pc = "del_LoadConfFromCache"
    /\ \E o \in LoadConfFromCacheOutcomes(cache, args) :
         /\ calls' = Append(calls, Call("LoadConfFromCache", o = "ok"))
         /\ IF o = "ok"
            THEN /\ netConf' = cache[CRefPath(args)]
                 /\ cRefPath' = CRefPath(args)
                 /\ err' = nil
                 /\ defers' = <<"CleanCachedNetConf">> \o defers
                 /\ pc' = "del_IPAM"
                 /\ ret' = ret
            ELSE /\ netConf' = netConf
                 /\ cRefPath' = cRefPath
                 /\ err' = o
                 /\ defers' = defers
                 /\ ReturnWith(o)
    /\ UNCHANGED <<env, op, args, ierr, result, newResult, printed, r, pre,
                   hist>>

\* lines 153-161 with the ExecDel error dropped instead of returned
CmdDel_IPAM_ErrorDropped ==
    /\ pc = "del_IPAM"
    /\ IF netConf.IPAMType = ""
       THEN /\ pc' = "del_GetNS"
            /\ UNCHANGED <<ret, err, calls, ipAllocated>>
       ELSE IF netConf.IPAMType = "dhcp"
            THEN /\ ReturnWith("ipam type dhcp is not supported")
                 /\ UNCHANGED <<err, calls, ipAllocated>>
            ELSE \E ok \in BOOLEAN :
                   /\ calls' = Append(calls, Call("ExecDel", ok))
                   /\ ipAllocated' = IF ok THEN FALSE ELSE ipAllocated
                   /\ err' = nil
                   /\ pc' = "del_GetNS"
                   /\ ret' = ret
    /\ UNCHANGED <<vfLoc, vfConfigured, ifaceCfg, cache, op, args, netConf,
                   cRefPath, ierr, defers, result, newResult, printed, r, pre,
                   hist>>

\* lines 153-161
CmdDel_IPAM ==
    /\ pc = "del_IPAM"
    /\ IF netConf.IPAMType = ""
       THEN /\ pc' = "del_GetNS"
            /\ UNCHANGED <<ret, err, calls, ipAllocated>>
       ELSE IF netConf.IPAMType = "dhcp"
            THEN /\ ReturnWith("ipam type dhcp is not supported")
                 /\ UNCHANGED <<err, calls, ipAllocated>>
            ELSE \E ok \in BOOLEAN :
                   /\ calls' = Append(calls, Call("ExecDel", ok))
                   /\ ipAllocated' = IF ok THEN FALSE ELSE ipAllocated
                   /\ err' = IF ok THEN nil ELSE "ExecDel"
                   /\ IF ok
                      THEN pc' = "del_GetNS" /\ ret' = ret
                      ELSE ReturnWith("ExecDel")
    /\ UNCHANGED <<vfLoc, vfConfigured, ifaceCfg, cache, op, args, netConf,
                   cRefPath, ierr, defers, result, newResult, printed, r, pre,
                   hist>>

\* lines 163-177 without the test for NSPathNotExistErr: every error is returned
CmdDel_GetNS_EveryErrorReturned ==
    /\ pc = "del_GetNS"
    /\ \E o \in GetNSOutcomes(args) :
         /\ calls' = Append(calls, Call("GetNS", o = "ok"))
         /\ err' = IF o = "ok" THEN nil ELSE o
         /\ IF o = "ok"
            THEN /\ defers' = <<"Close">> \o defers
                 /\ pc' = "del_ReleaseVF"
                 /\ ret' = ret
            ELSE /\ defers' = defers
                 /\ ReturnWith("failed to open netns")
    /\ UNCHANGED <<env, op, args, netConf, cRefPath, ierr, result, newResult,
                   printed, r, pre, hist>>

\* lines 163-177
CmdDel_GetNS ==
    /\ pc = "del_GetNS"
    /\ \E o \in GetNSOutcomes(args) :
         /\ calls' = Append(calls, Call("GetNS", o = "ok"))
         /\ err' = IF o = "ok" THEN nil ELSE o
         /\ IF o = "ok"
            THEN /\ defers' = <<"Close">> \o defers
                 /\ pc' = "del_ReleaseVF"
                 /\ ret' = ret
            ELSE /\ defers' = defers
                 /\ ReturnWith(IF o = "notExist" THEN nil
                               ELSE "failed to open netns")
    /\ UNCHANGED <<env, op, args, netConf, cRefPath, ierr, result, newResult,
                   printed, r, pre, hist>>

\* lines 179-181
CmdDel_ReleaseVF ==
    /\ pc = "del_ReleaseVF"
    /\ \E ok \in ReleaseVFOutcomes(vfLoc) :
         /\ calls' = Append(calls, Call("ReleaseVF", ok))
         /\ vfLoc' = ReleaseVFLoc(vfLoc, ok)
         /\ ifaceCfg' = ReleaseVFIface(ifaceCfg, ok)
         /\ err' = IF ok THEN nil ELSE "ReleaseVF"
         /\ IF ok
            THEN pc' = "del_ResetVFConfig" /\ ret' = ret
            ELSE ReturnWith("ReleaseVF")
    /\ UNCHANGED <<vfConfigured, ipAllocated, cache, op, args, netConf,
                   cRefPath, ierr, defers, result, newResult, printed, r, pre,
                   hist>>

\* lines 183-187: err is declared by the if statement and is not the function's
CmdDel_ResetVFConfig ==
    /\ pc = "del_ResetVFConfig"
    /\ \E ok \in BOOLEAN :
         /\ calls' = Append(calls, Call("ResetVFConfig", ok))
         /\ vfConfigured' = IF ok THEN FALSE ELSE vfConfigured
         /\ ReturnWith(IF ok THEN nil ELSE "cmdDel() error reseting VF")
    /\ UNCHANGED <<vfLoc, ipAllocated, ifaceCfg, cache, op, args, netConf,
                   cRefPath, err, ierr, defers, result, newResult, printed, r,
                   pre, hist>>

\* lines 145-149, run on return: the closure reads the function's err
Defer_CleanCachedNetConf ==
    /\ pc = "defers"
    /\ defers # <<>> /\ Head(defers) = "CleanCachedNetConf"
    /\ defers' = Tail(defers)
    /\ IF CleanWanted(err, cRefPath)
       THEN \E ok \in BOOLEAN :
              /\ calls' = Append(calls, Call("CleanCachedNetConf", ok))
              /\ cache' = IF ok THEN CleanCachedNetConf(cache, cRefPath)
                          ELSE cache
       ELSE /\ calls' = calls
            /\ cache' = cache
    /\ UNCHANGED <<vfLoc, vfConfigured, ipAllocated, ifaceCfg, pc, op, args,
                   netConf, cRefPath, err, ierr, result, newResult, ret,
                   printed, r, pre, hist>>

-----------------------------------------------------------------------------
(* cmdCheck, lines 190-192 *)
CmdCheck ==
    /\ pc = "check"
    /\ ReturnWith(nil)
    /\ UNCHANGED <<env, op, args, netConf, cRefPath, err, ierr, defers, calls,
                   result, newResult, printed, r, pre, hist>>

-----------------------------------------------------------------------------
Next ==
    \/ Invoke
    \/ CmdAdd_LoadConf
    \/ CmdAdd_CheckAnnotation
    \/ CmdAdd_CheckGuid
    \/ CmdAdd_GetNS
    \/ CmdAdd_ApplyVFConfig
    \/ CmdAdd_SetupVF
    \/ CmdAdd_IPAMType
    \/ CmdAdd_ExecAdd
    \/ CmdAdd_NewResult
    \/ CmdAdd_CheckIPs
    \/ CmdAdd_Rewrite
    \/ CmdAdd_ConfigureIface
    \/ CmdAdd_SaveNetConf
    \/ CmdAdd_PrintResult
    \/ CmdDel_Netns
    \/ CmdDel_LoadConfFromCache
    \/ CmdDel_IPAM
    \/ CmdDel_GetNS
    \/ CmdDel_ReleaseVF
    \/ CmdDel_ResetVFConfig
    \/ CmdCheck
    \/ Defer_ExecDel
    \/ Defer_ReleaseVF
    \/ Defer_Close
    \/ Defer_CleanCachedNetConf
    \/ Return

Spec == Init /\ [][Next]_vars

-----------------------------------------------------------------------------
TypeOK ==
    /\ vfLoc \in {"host", "container"}
    /\ vfConfigured \in BOOLEAN
    /\ ipAllocated \in BOOLEAN
    /\ Len(ifaceCfg) <= 1
    /\ DOMAIN cache \subseteq {CRefPath(a) : a \in CmdArgs}
    /\ op \in {"none", "add", "del", "check"}
    /\ Len(hist) <= MaxHist
    /\ Len(printed) <= 1

-----------------------------------------------------------------------------
(* Properties *)

Returned(o) == pc = "idle" /\ op = o
Mutations == {"ApplyVFConfig", "SetupVF", "ReleaseVF", "ResetVFConfig"}
RequestAnnotation ==
    IF infiniBandAnnotation \in DOMAIN args.StdinData.cniArgs
    THEN <<args.StdinData.cniArgs[infiniBandAnnotation]>> ELSE <<>>

\* C1: rollback completeness of attach.  When cmdAdd returns an error, every
\* forward step it had completed has been unwound: the VF configuration was
\* reset (ResetVFConfig) if ApplyVFConfig succeeded, the VF was taken back out
\* of the namespace (ReleaseVF) if SetupVF succeeded, the address was released
\* (ExecDel) if ExecAdd succeeded, and no cache record was written.
C1_RollbackComplete ==
    (Returned("add") /\ ret # nil) =>
        /\ Succeeded("ApplyVFConfig") => Called("ResetVFConfig")
        /\ Succeeded("SetupVF") => Called("ReleaseVF")
        /\ Succeeded("ExecAdd") => Called("ExecDel")
        /\ ~Succeeded("SaveNetConf")

\* C2: a request whose IPAM type is "dhcp" is rejected with an error by cmdAdd
\* and by cmdDel, and the invocation performs none of ApplyVFConfig, SetupVF,
\* ReleaseVF, ResetVFConfig.
C2_DhcpRejectedWithoutMutation ==
    ( \/ op = "add" /\ args.StdinData.ipamType = "dhcp"
      \/ op = "del" /\ netConf.IPAMType = "dhcp" ) =>
        /\ pc = "idle" => ret # nil
        /\ \A fn \in Mutations : ~Called(fn)

\* C3: idempotent detach.  After a successful attach and a successful detach
\* that left neither the device in the namespace nor the cache record, a
\* second cmdDel with a non-empty namespace returns success.
C3_SecondDetachSucceeds ==
    ( /\ Returned("del") /\ args.Netns # ""
      /\ hist = <<"add", "del">>
      /\ pre.vfLoc = "host"
      /\ CRefPath(args) \notin DOMAIN pre.cache ) => ret = nil

\* C4: detach without a cache record.  When no record exists for the key,
\* cmdDel with a non-empty namespace goes on to the device cleanup: it opens
\* the namespace and, once it is open, calls ReleaseVF.
C4_DetachWithoutRecordCleansUp ==
    ( /\ Returned("del") /\ args.Netns # ""
      /\ CRefPath(args) \notin DOMAIN pre.cache ) =>
        /\ Called("GetNS")
        /\ Succeeded("GetNS") => Called("ReleaseVF")

\* C5: missing annotation.  An attach request without the annotation
\* "mellanox.infiniband.app", or with a value other than "configured", is
\* rejected with an error, and the invocation opens no namespace and makes no
\* device, IPAM or cache call: the environment stays as it was.
C5_MissingAnnotationRejected ==
    (op = "add" /\ RequestAnnotation # <<"configured">>) =>
        /\ pc = "idle" => ret # nil
        /\ \A i \in 1..Len(calls) : calls[i].fn = "LoadConf"
        /\ defers = <<>>
        /\ EnvRec = pre

C5_Witness ==
    /\ Returned("add") /\ ret # nil
    /\ RequestAnnotation = <<"pending">>
    /\ "guid" \in DOMAIN args.StdinData.cniArgs
    /\ args.Netns # ""
    /\ calls = <<Call("LoadConf", TRUE)>>

\* C6: empty-namespace detach.  cmdDel with an empty namespace path returns
\* success at once: it makes no call at all (no cache load or delete, no IPAM
\* release, no namespace open, no ReleaseVF, no ResetVFConfig), registers no
\* deferred call and leaves the environment as it was.
C6_EmptyNetnsDetachIsNoOp ==
    (op = "del" /\ args.Netns = "") =>
        /\ pc \in {"del_Netns", "defers", "idle"}
        /\ pc # "del_Netns" => ret = nil
        /\ calls = <<>>
        /\ defers = <<>>
        /\ EnvRec = pre

C6_Witness ==
    /\ Returned("del") /\ args.Netns = "" /\ ret = nil
    /\ vfLoc = "container"
    /\ ipAllocated
    /\ CRefPath(args) \in DOMAIN cache

\* C7: persistence failure is not rolled back.  When SaveNetConf fails,
\* cmdAdd returns an error, the VF stays in the namespace with its
\* configuration, and none of ReleaseVF, ResetVFConfig, ExecDel is invoked.
C7_SaveFailureNotRolledBack ==
    (Returned("add") /\ Failed("SaveNetConf")) =>
        /\ ret # nil
        /\ vfLoc = "container"
        /\ vfConfigured
        /\ \A fn \in {"ReleaseVF", "ResetVFConfig", "ExecDel"} : ~Called(fn)

\* a result as cmdAdd must hand it on: every address at interface index 0 and
\* the container-side interface alone in the interface list
RewrittenFor(res, a, delegate) ==
    /\ res.Interfaces = <<[Name |-> a.IfName, Sandbox |-> a.Netns]>>
    /\ Len(res.IPs) = Len(delegate.IPs)
    /\ \A i \in 1..Len(res.IPs) :
         /\ res.IPs[i].Interface = {0}
         /\ res.IPs[i].Address = delegate.IPs[i].Address

\* C8: address index rewrite.  Whatever interface index the addresses of the
\* IPAM result carried, the result configured on the interface and the result
\* returned have every address at interface index 0 and list exactly the
\* container-side interface (requested name, sandbox = namespace path).
C8_AddressIndexRewrite ==
    (op = "add" /\ Succeeded("ExecAdd")) =>
        /\ (Succeeded("ConfigureIface") /\ ifaceCfg # <<>>) =>
               RewrittenFor(ifaceCfg[1], args, r)
        /\ printed # <<>> => RewrittenFor(printed[1], args, r)

C8_Witness ==
    /\ Returned("add") /\ ret = nil
    /\ Len(r.IPs) = 2
    /\ r.IPs[1].Interface = {1}
    /\ r.IPs[2].Interface = {}
    /\ r.Interfaces # <<>>
    /\ printed # <<>> /\ ifaceCfg = printed
    /\ \A i \in 1..2 : printed[1].IPs[i].Interface = {0}

\* C9: zero addresses are a failure.  When ExecAdd succeeds and the converted
\* result holds no address, cmdAdd returns an error, never calls
\* ConfigureIface or SaveNetConf, leaves interface and cache as they were and
\* prints no result.
C9_ZeroAddressesFail ==
    ( /\ op = "add"
      /\ Succeeded("ExecAdd") /\ Succeeded("NewResultFromResult")
      /\ Len(r.IPs) = 0 ) =>
        /\ pc = "idle" => ret # nil
        /\ ~Called("ConfigureIface")
        /\ ~Called("SaveNetConf")
        /\ ifaceCfg = pre.ifaceCfg
        /\ cache = pre.cache
        /\ printed = <<>>

C9_Witness ==
    /\ Returned("add")
    /\ Succeeded("ExecAdd") /\ Succeeded("NewResultFromResult")
    /\ Len(r.IPs) = 0
    /\ ret = "IPAM plugin returned missing IP config"

\* C10: detach attempts every independent cleanup step.  When ExecDel fails
\* in cmdDel, the device detach is still attempted before cmdDel returns: the
\* namespace is opened and, once it is open, ReleaseVF is called.
C10_DetachContinuesAfterExecDelFailure ==
    (Returned("del") /\ Failed("ExecDel")) =>
        /\ Called("GetNS")
        /\ Succeeded("GetNS") => Called("ReleaseVF")

\* C11: fail-fast on the device identifier.  An attach request whose guid is
\* missing from the CNI args, or present but empty, is rejected with an error
\* and the invocation performs no ApplyVFConfig, SetupVF, IPAM call or cache
\* write.
C11_EmptyGuidRejected ==
    ( /\ op = "add"
      /\ \/ "guid" \notin DOMAIN args.StdinData.cniArgs
         \/ args.StdinData.cniArgs["guid"] = "" ) =>
        /\ pc = "idle" => ret # nil
        /\ \A fn \in {"ApplyVFConfig", "SetupVF", "ExecAdd", "ExecDel",
                      "ConfigureIface", "SaveNetConf"} : ~Called(fn)

\* C12: the cache record is deleted after a successful detach.  Whenever
\* cmdDel with a non-empty namespace has loaded a record and returns success,
\* CleanCachedNetConf has been invoked, the success on a vanished namespace
\* path included.
C12_RecordDeletedOnSuccess ==
    ( /\ Returned("del") /\ args.Netns # ""
      /\ Succeeded("LoadConfFromCache") /\ cRefPath # NoPath
      /\ ret = nil ) => Called("CleanCachedNetConf")

\* C13: attach step 2 failure resets the device.  When ApplyVFConfig
\* succeeded and SetupVF then fails, ResetVFConfig has been invoked by the
\* time cmdAdd returns its error.
C13_SetupFailureResetsVF ==
    ( /\ Returned("add")
      /\ Succeeded("ApplyVFConfig") /\ Failed("SetupVF") ) =>
        /\ ret # nil
        /\ Called("ResetVFConfig")

\* C14: attach step 3 failure unwinds device and address.  When SetupVF
\* succeeded and ExecAdd, the result conversion or ConfigureIface then fails,
\* ReleaseVF, ResetVFConfig and ExecDel have all been invoked by the time
\* cmdAdd returns.
C14_AddressFailureUnwinds ==
    ( /\ Returned("add") /\ Succeeded("SetupVF")
      /\ \/ Failed("ExecAdd")
         \/ Failed("NewResultFromResult")
         \/ Failed("ConfigureIface") ) =>
        /\ ret # nil
        /\ Called("ReleaseVF")
        /\ Called("ResetVFConfig")
        /\ Called("ExecDel")

\* position of a call in the detach sequence
DelRank(fn) ==
    CASE fn = "LoadConfFromCache" -> 1
      [] fn = "ExecDel" -> 2
      [] fn = "GetNS" -> 3
      [] fn = "ReleaseVF" -> 4
      [] fn = "ResetVFConfig" -> 5
      [] fn = "Close" -> 6
      [] OTHER -> 7

\* C15: detach ordering.  In every cmdDel the calls occur in the order load
\* of the cache record, ExecDel (only when the IPAM type is non-empty), open
\* of the namespace, ReleaseVF, ResetVFConfig; ReleaseVF is invoked only
\* after the address release succeeded or was skipped, and ResetVFConfig only
\* after ReleaseVF succeeded in the same call.
C15_DetachOrder ==
    op = "del" =>
        /\ \A i, j \in 1..Len(calls) :
             i < j => DelRank(calls[i].fn) < DelRank(calls[j].fn)
        /\ Called("ExecDel") =>
             Succeeded("LoadConfFromCache") /\ netConf.IPAMType # ""
        /\ Called("GetNS") =>
             IF netConf.IPAMType = "" THEN ~Called("ExecDel")
             ELSE Succeeded("ExecDel")
        /\ Called("ReleaseVF") =>
             /\ Succeeded("LoadConfFromCache") /\ Succeeded("GetNS")
             /\ ~Failed("ExecDel")
        /\ Called("ResetVFConfig") => Succeeded("ReleaseVF")

C15_Witness ==
    /\ Returned("del") /\ ret = nil
    /\ Len(calls) = 7
    /\ \A i \in 1..5 : DelRank(calls[i].fn) = i /\ calls[i].ok

\* C16: detach against a vanished namespace.  When opening the namespace
\* path answers that the path does not exist, cmdDel returns success, the
\* IPAM release has been performed (when the IPAM type is non-empty) and
\* neither ReleaseVF nor ResetVFConfig is attempted; any other error opening
\* the namespace makes cmdDel return an error.
C16_VanishedNamespace ==
    (op = "del" /\ Failed("GetNS")) =>
        /\ err \in {"notExist", "error"}
        /\ ~Called("ReleaseVF")
        /\ ~Called("ResetVFConfig")
        /\ ~Called("Close")
        /\ netConf.IPAMType # "" => Succeeded("ExecDel")
        /\ pc = "idle" => (ret = nil <=> err = "notExist")

C16_Witness ==
    /\ Returned("del") /\ Failed("GetNS")
    /\ err = "notExist" /\ ret = nil
    /\ netConf.IPAMType = "host-local" /\ Succeeded("ExecDel")
    /\ vfLoc = "container"

\* the calls cmdAdd makes to undo a forward step
Rollbacks == {"ExecDel", "LinkByName", "ReleaseVF"}

Closes == {i \in 1..Len(calls) : calls[i].fn = "Close"}

\* C18: namespace handle release.  In every cmdAdd and cmdDel that opened the
\* namespace handle, the handle is closed exactly once before the handler
\* returns, whatever the exit path, and after every call that uses it (the
\* rollback lookup and release included); a handle that was not opened is
\* never closed.
C18_HandleClosedOnce ==
    op \in {"add", "del"} =>
        /\ Cardinality(Closes) <= 1
        /\ Closes # {} => Succeeded("GetNS") /\ pc \in {"defers", "idle"}
        /\ (pc = "idle" /\ Succeeded("GetNS")) => Cardinality(Closes) = 1
        /\ \A i \in Closes : \A j \in 1..Len(calls) :
             i < j => calls[j].fn = "CleanCachedNetConf"

C18_Witness ==
    /\ Returned("add") /\ ret # nil
    /\ Succeeded("SetupVF")
    /\ Succeeded("ReleaseVF")
    /\ calls[Len(calls)] = Call("Close", TRUE)
    /\ Cardinality(Closes) = 1

\* C19: a failed detach keeps its cache record.  Whenever cmdDel returns an
\* error after loading the record, the record has not been deleted:
\* CleanCachedNetConf is invoked only in executions that return success.
C19_FailedDetachKeepsRecord ==
    ( /\ Returned("del") /\ ret # nil
      /\ Succeeded("LoadConfFromCache") ) =>
        /\ ~Called("CleanCachedNetConf")
        /\ CRefPath(args) \in DOMAIN cache

\* C20: existence check before the rollback release.  During the rollback
\* of cmdAdd, ReleaseVF is invoked only right after a lookup that found the
\* link of the requested name in the namespace; when the lookup fails (the
\* device never arrived), ReleaseVF is not invoked, the VF is where it was
\* and cmdAdd returns the error of the forward step.
C20_ReleaseOnlyIfLinkFound ==
    op = "add" =>
        /\ \A i \in 1..Len(calls) : calls[i].fn = "ReleaseVF" =>
             i > 1 /\ calls[i - 1] = Call("LinkByName", TRUE)
        /\ Failed("LinkByName") =>
             /\ ~Called("ReleaseVF")
             /\ vfLoc = "host"
             /\ Failed("SetupVF")
             /\ ret = "failed to set up pod interface"

C20_Witness ==
    /\ Returned("add")
    /\ Failed("SetupVF") /\ Failed("LinkByName")
    /\ ~Called("ReleaseVF")
    /\ Called("Close")
    /\ vfLoc = "host"

====
